---- MODULE Spec2Model ----
(***************************************************************************)
(* A model of luaproc (src/src/main.rs): the token-level macro expander    *)
(* get_macros with its helpers apply_value_macro_once, apply_value_macros, *)
(* apply_func_macro_once, eval_pastes and render_tokens_as_string.         *)
(*                                                                         *)
(* Tokens are records [kind, value] as in the struct Token.  Indices keep  *)
(* the 0-based values of the Rust code; At(ts, n) is ts.nth(n).            *)
(***************************************************************************)
EXTENDS Integers, Sequences, FiniteSets, TLC

VARIABLES
  tokens,        \* main: the lexed input handed to get_macros
  i,             \* get_macros: the cursor of the top-level call
  new_tokens,    \* get_macros: the output accumulator of the top-level call
  value_macros,  \* the environment: Vec<ValueMacro>
  func_macros,   \* the environment: Vec<FunctionMacro>
  pc,            \* main: "expand", "done" or "panic"
  result,        \* main: the rendered text written to out.lua
  last,          \* history: the kind of top-level step taken last
  p_tokens,      \* eval_pastes: its argument
  raw_i,         \* eval_pastes: the outer loop index
  p_new          \* eval_pastes: its new_tokens

vars == <<tokens, i, new_tokens, value_macros, func_macros, pc, result, last,
          p_tokens, raw_i, p_new>>

mainVars == <<tokens, i, new_tokens, value_macros, func_macros, pc, result, last>>
pasteVars == <<p_tokens, raw_i, p_new>>

(***************************************************************************)
(* Bounds of the model.                                                    *)
(***************************************************************************)
MaxChunks == 3
MaxPasteLen == 5

(***************************************************************************)
(* Tokens.                                                                 *)
(***************************************************************************)
Token(k, v) == [kind |-> k, value |-> v]

At(ts, n) == ts[n + 1]
Has(ts, n) == n >= 0 /\ n < Len(ts)
Skip(ts, n) == IF n >= Len(ts) THEN <<>> ELSE SubSeq(ts, n + 1, Len(ts))
Pop(ts) == IF ts = <<>> THEN <<>> ELSE SubSeq(ts, 1, Len(ts) - 1)

\* The(S) is the element of a one-element set.  The model writes
\*   The({ body : x \in {e} })
\* for `let x = e; body`: x names the value of e, computed once.
The(S) == CHOOSE x \in S : TRUE

RECURSIVE Flatten(_)
Flatten(ss) == IF ss = <<>> THEN <<>> ELSE Head(ss) \o Flatten(Tail(ss))

RECURSIVE Join(_)
Join(parts) == IF parts = <<>> THEN "" ELSE Head(parts) \o Join(Tail(parts))

(***************************************************************************)
(* eval_pastes.  PasteRun is the inner while loop started at a Name at     *)
(* index j with the collected parts; PasteIter is one pass of the outer    *)
(* loop body; eval_pastes runs the outer loop to its end.                  *)
(***************************************************************************)
RECURSIVE PasteRun(_, _, _)
PasteRun(ts, j0, parts0) ==
  The({ IF j + 1 < Len(ts)
        THEN IF At(ts, j + 1).kind = "Paste"
             THEN IF Len(ts) > j + 2 /\ At(ts, j + 2).kind = "Name"
                  THEN PasteRun(ts, j + 2, Append(parts, At(ts, j + 2).value))
                  ELSE [i |-> j, parts |-> parts]
             ELSE [i |-> j, parts |-> parts]
        ELSE [i |-> j, parts |-> parts]
        : j \in {j0}, parts \in {parts0} })

\* A faulty outer pass: it joins at most one pair Name ## Name of a run.
PasteIterBadOnePair(ts, s) ==
  LET j == s.raw_i
  IN IF At(ts, j).kind = "Name"
     THEN IF j + 2 < Len(ts) /\ At(ts, j + 1).kind = "Paste" /\ At(ts, j + 2).kind = "Name"
          THEN [raw_i |-> j + 3,
                new_tokens |-> Append(s.new_tokens,
                                      Token("Name", At(ts, j).value \o At(ts, j + 2).value))]
          ELSE [raw_i |-> j + 1, new_tokens |-> Append(s.new_tokens, At(ts, j))]
     ELSE [raw_i |-> j + 1, new_tokens |-> Append(s.new_tokens, At(ts, j))]

PasteIter(ts, s) ==
  LET j == s.raw_i
  IN IF At(ts, j).kind = "Name"
     THEN The({ [raw_i |-> r.i + 1,
                 new_tokens |-> Append(s.new_tokens, Token("Name", Join(r.parts)))]
                : r \in {PasteRun(ts, j, <<At(ts, j).value>>)} })
     ELSE [raw_i |-> j + 1, new_tokens |-> Append(s.new_tokens, At(ts, j))]

RECURSIVE PasteLoop(_, _)
PasteLoop(ts, s0) ==
  The({ IF s.raw_i < Len(ts) THEN PasteLoop(ts, PasteIter(ts, s)) ELSE s.new_tokens
        : s \in {s0} })

eval_pastes(ts) == PasteLoop(ts, [raw_i |-> 0, new_tokens |-> <<>>])

(***************************************************************************)
(* render_tokens_as_string: the lexemes joined by a space, except after a  *)
(* lexeme that ends in a line feed.  The reduce of an empty vector is      *)
(* None, and the unwrap panics: CanRender is its precondition.             *)
(***************************************************************************)
EndsWithNewline(str) == Len(str) > 0 /\ SubSeq(str, Len(str), Len(str)) = "\n"

RECURSIVE RenderFold(_, _)
RenderFold(acc0, ts0) ==
  The({ IF ts = <<>> THEN acc
        ELSE RenderFold(IF EndsWithNewline(acc)
                        THEN acc \o Head(ts).value
                        ELSE acc \o " " \o Head(ts).value,
                        Tail(ts))
        : acc \in {acc0}, ts \in {ts0} })

CanRender(ts) == ts # <<>>

render_tokens_as_string(ts) == RenderFold(Head(ts).value, Tail(ts))

(***************************************************************************)
(* format!("{:?}", s): the Debug form of a string, quoted and escaped.     *)
(***************************************************************************)
EscapeChar(c) ==
  CASE c = "\"" -> "\\\""
    [] c = "\\" -> "\\\\"
    [] c = "\n" -> "\\n"
    [] c = "\t" -> "\\t"
    [] c = "\r" -> "\\r"
    [] OTHER -> c

DebugFormat(str) ==
  "\"" \o Join([k \in 1..Len(str) |-> EscapeChar(SubSeq(str, k, k))]) \o "\""

StringifyName(tok) == SubSeq(tok.value, 2, Len(tok.value) - 1)

(***************************************************************************)
(* apply_value_macro_once: Option<Vec<Token>>, here [some, toks, panic].   *)
(***************************************************************************)
None == [some |-> FALSE, toks |-> <<>>, panic |-> FALSE]
Some(ts) == [some |-> TRUE, toks |-> ts, panic |-> FALSE]
Panic == [some |-> FALSE, toks |-> <<>>, panic |-> TRUE]

IsVarargSite(tok) == tok.value = "__VA_ARGS__" \/ tok.value = "#..."

apply_value_macro_once(input, value_macro) ==
  IF input = <<>> THEN None
  ELSE LET token == At(input, 0)
       IN IF token.kind = "MacroName" /\ token.value = value_macro.name
          THEN IF Len(input) > 1 /\ At(input, 1).value = "="
               THEN Some(<<token>>)
               ELSE Some(value_macro.value)
          ELSE IF token.kind = "Stringify" /\ StringifyName(token) = value_macro.name
          THEN IF CanRender(value_macro.value)
               THEN Some(<<Token("String",
                                 DebugFormat(render_tokens_as_string(value_macro.value)))>>)
               ELSE Panic
          ELSE IF token.kind = "Delimiter" /\ Len(input) > 1 /\ IsVarargSite(At(input, 1))
          THEN IF value_macro.value # <<>> THEN Some(<<token>>) ELSE None
          ELSE IF token.kind = "TaggedVararg"
          THEN Some(value_macro.value)
          ELSE None

(***************************************************************************)
(* apply_value_macros: the flat_map over the body, every site rewritten.   *)
(* SubstAt is the closure applied to the token at index k; a panic in the  *)
(* Stringify branch aborts the whole call.                                 *)
(***************************************************************************)
SubstPanics(input, k, value_macro) ==
  /\ At(input, k).kind = "Stringify"
  /\ StringifyName(At(input, k)) = value_macro.name
  /\ ~CanRender(value_macro.value)

SubstAt(input, k, value_macro) ==
  LET token == At(input, k)
  IN IF token.kind = "Name" /\ token.value = value_macro.name
     THEN IF k + 1 < Len(input) /\ At(input, k + 1).value = "="
          THEN <<token>>
          ELSE value_macro.value
     ELSE IF token.kind = "Stringify" /\ StringifyName(token) = value_macro.name
     THEN <<Token("String", DebugFormat(render_tokens_as_string(value_macro.value)))>>
     ELSE IF token.kind = "Delimiter" /\ k + 1 < Len(input)
             /\ IsVarargSite(At(input, k + 1))
     THEN IF value_macro.value # <<>> THEN <<token>> ELSE <<>>
     ELSE IF token.kind = "TaggedVararg"
     THEN value_macro.value
     ELSE <<token>>

apply_value_macros(input, value_macro) ==
  IF \E k \in 0..(Len(input) - 1) : SubstPanics(input, k, value_macro)
  THEN [toks |-> <<>>, panic |-> TRUE]
  ELSE [toks |-> Flatten([k \in 1..Len(input) |-> SubstAt(input, k - 1, value_macro)]),
        panic |-> FALSE]

(***************************************************************************)
(* apply_func_macro_once.  ArgScan is the for loop over tokens.skip(2):    *)
(* st.i counts the tokens visited, st.args is the argument list and        *)
(* st.nesting_level the bracket depth; the loop breaks at depth -1.        *)
(***************************************************************************)
IsOpener(v) == v \in {"(", "{", "[", "function", "do", "then"}
IsCloser(v) == v \in {")", "}", "]", "end"}

PushToLast(args, tok) == [args EXCEPT ![Len(args)] = Append(@, tok)]

RECURSIVE ArgScan(_, _)
ArgScan(rest0, st0) ==
  The({ IF rest = <<>> THEN st
        ELSE LET cur_token == Head(rest)
                 st1 == [st EXCEPT !.i = @ + 1]
             IN IF cur_token.kind = "Delimiter" /\ st.nesting_level = 0
                THEN ArgScan(Tail(rest), [st1 EXCEPT !.args = Append(@, <<>>)])
                ELSE IF IsOpener(cur_token.value)
                THEN ArgScan(Tail(rest),
                             [st1 EXCEPT !.nesting_level = @ + 1,
                                         !.args = PushToLast(@, cur_token)])
                ELSE IF IsCloser(cur_token.value)
                THEN IF st.nesting_level - 1 = -1
                     THEN st1
                     ELSE ArgScan(Tail(rest),
                                  [st1 EXCEPT !.nesting_level = @ - 1,
                                              !.args = PushToLast(@, cur_token)])
                ELSE ArgScan(Tail(rest), [st1 EXCEPT !.args = PushToLast(@, cur_token)])
        : rest \in {rest0}, st \in {st0} })

RECURSIVE CommaSep(_)
CommaSep(varargs) ==
  IF varargs = <<>> THEN <<>>
  ELSE IF Len(varargs) = 1 THEN Head(varargs)
  ELSE Head(varargs) \o <<Token("Delimiter", ",")>> \o CommaSep(Tail(varargs))

Min(a, b) == IF a < b THEN a ELSE b

\* The binding made for the pair number k (0-based) of zip(params, args).
Binding(params, args, k) ==
  IF At(params, k) = "..."
  THEN [name |-> "__VA_ARGS__", value |-> CommaSep(Skip(args, k))]
  ELSE [name |-> At(params, k), value |-> At(args, k)]

\* The for_each over zip(params, args): one apply_value_macros per pair.
RECURSIVE SubstParams(_, _, _, _)
SubstParams(value0, params, args, k) ==
  The({ IF k >= Min(Len(params), Len(args)) THEN [toks |-> value, panic |-> FALSE]
        ELSE The({ IF r.panic THEN r ELSE SubstParams(r.toks, params, args, k + 1)
                   : r \in {apply_value_macros(value, Binding(params, args, k))} })
        : value \in {value0} })

NoneF == [some |-> FALSE, toks |-> <<>>, new_i |-> 0, panic |-> FALSE]

apply_func_macro_once(input, func_macro) ==
  IF input = <<>> THEN NoneF
  ELSE LET token == At(input, 0)
       IN IF token.kind = "MacroName" /\ token.value = func_macro.name /\ Has(input, 1)
          THEN IF At(input, 1).value \notin {"(", "[", "{"}
               THEN NoneF
               ELSE The({ The({ [some |-> ~r.panic, toks |-> r.toks,
                                 new_i |-> st.i + 2, panic |-> r.panic]
                                : r \in {SubstParams(func_macro.value,
                                                     func_macro.params, st.args, 0)} })
                          : st \in {ArgScan(Skip(input, 2),
                                            [nesting_level |-> 0, args |-> <<<<>>>>,
                                             i |-> 0])} })
          ELSE NoneF

(***************************************************************************)
(* get_macros.  A call's state is st = [i, new_tokens, value_macros,       *)
(* func_macros, panic]; the environment is the pair of vectors the caller  *)
(* lends (&mut), so a recursive call returns it changed.  Iter is one pass *)
(* of the while loop body, in the order of the code: the push, #undef, the *)
(* value-macro loop, the function-macro loop, #ifdef/#ifndef, #endif,      *)
(* #define.                                                                *)
(***************************************************************************)
ValueMacro(n, v) == [name |-> n, value |-> v]
FunctionMacro(n, ps, v) == [name |-> n, params |-> ps, value |-> v]

\* A faulty removal: it keeps the function macros named n.
RemoveNamedBadKeepsFunc(macros, n) ==
  SelectSeq(macros, LAMBDA m : m.name # n \/ "params" \in DOMAIN m)

\* The filter of #undef: every macro whose name is not n, in order.
RemoveNamed(macros, n) == SelectSeq(macros, LAMBDA m : m.name # n)

\* tokens.skip(n).take_while(|t| t.value.as_str() != ")")
RECURSIVE TakeParams(_, _)
TakeParams(ts, n) ==
  IF ~Has(ts, n) \/ At(ts, n).value = ")" THEN <<>>
  ELSE <<At(ts, n)>> \o TakeParams(ts, n + 1)

\* tokens.skip(n).take_while(|t| t.kind != TokenKind::EndDefine)
RECURSIVE TakeBody(_, _)
TakeBody(ts, n) ==
  IF ~Has(ts, n) \/ At(ts, n).kind = "EndDefine" THEN <<>>
  ELSE <<At(ts, n)>> \o TakeBody(ts, n + 1)

\* params_iter.split(Delimiter), then the first token's lexeme of every
\* non-empty piece.
ParamNames(ps) ==
  LET firsts == SelectSeq([k \in 1..Len(ps) |->
                             IF ps[k].kind # "Delimiter"
                                /\ (k = 1 \/ ps[k - 1].kind = "Delimiter")
                             THEN <<ps[k].value>> ELSE <<>>],
                          LAMBDA x : x # <<>>)
  IN [k \in 1..Len(firsts) |-> firsts[k][1]]

Contains(st, n) ==
  \/ \E k \in 1..Len(st.value_macros) : st.value_macros[k].name = n
  \/ \E k \in 1..Len(st.func_macros) : st.func_macros[k].name = n

\* for tok in tokens.skip(i + 1) { i += 1; if tok.kind == Endif { break } }
\* n is the index of tok, j the value of i.
RECURSIVE SkipToEndif(_, _, _)
SkipToEndif(ts, n, j) ==
  IF ~Has(ts, n) THEN j
  ELSE IF At(ts, n).kind = "Endif" THEN j + 1
  ELSE SkipToEndif(ts, n + 1, j + 1)

\* if token.kind == Undef { ... }: [st, cont], cont for `continue`.
UndefPhase(ts, token, st) ==
  IF token.kind = "Undef" /\ Has(ts, st.i)
  THEN LET name == At(ts, st.i)
           st1 == [st EXCEPT !.i = @ + 1, !.new_tokens = Pop(@)]
       IN IF name.kind # "MacroName"
          THEN [st |-> st1, cont |-> TRUE]
          ELSE [st |-> [st1 EXCEPT
                          !.value_macros = RemoveNamed(@, name.value),
                          !.func_macros = RemoveNamed(@, name.value)],
                cont |-> FALSE]
  ELSE [st |-> st, cont |-> FALSE]

\* if token.kind == Ifdef || token.kind == Ifndef { ... continue }
IfdefPhase(ts, token, st) ==
  IF Has(ts, st.i)
  THEN LET var == At(ts, st.i)
           st1 == [st EXCEPT !.new_tokens = Pop(@)]
           found == Contains(st, var.value)
           contains == IF token.kind = "Ifndef" THEN ~found ELSE found
       IN IF var.kind # "MacroName" THEN st1
          ELSE IF ~contains
          THEN [st1 EXCEPT !.i = SkipToEndif(ts, st.i + 1, st.i) + 1]
          ELSE [st1 EXCEPT !.i = @ + 1]
  ELSE st

\* #define NAME!( ... : the branch eq.value == "("
DefineFunc(ts, name, st) ==
  LET params_iter == TakeParams(ts, st.i + 2)
      j == st.i + Len(params_iter)
      names == ParamNames(params_iter)
  IN IF Has(ts, j + 3)
     THEN IF At(ts, j + 3).value # "="
          THEN [st EXCEPT !.i = j]
          ELSE LET value == TakeBody(ts, j + 4)
               IN [st EXCEPT
                     !.func_macros = Append(@, FunctionMacro(name.value, names, value)),
                     !.i = j + 5 + Len(value),
                     !.new_tokens = Pop(@)]
     ELSE [st EXCEPT !.i = j]

\* #define NAME! followed by a Newline or by `=`
DefineValue(ts, name, eq, st) ==
  LET st1 == IF eq.kind = "Newline"
             THEN [st EXCEPT
                     !.value_macros = Append(@, ValueMacro(name.value, <<>>)),
                     !.i = @ + 2,
                     !.new_tokens = Pop(@)]
             ELSE st
  IN IF eq.value # "=" THEN st1
     ELSE LET value == TakeBody(ts, st1.i + 2)
          IN [st1 EXCEPT
                !.value_macros = Append(@, ValueMacro(name.value, value)),
                !.i = @ + 3 + Len(value),
                !.new_tokens = Pop(@)]

\* if token.kind == DefineDirective { ... }
DefinePhase(ts, st) ==
  IF Has(ts, st.i)
  THEN LET name == At(ts, st.i)
       IN IF name.kind # "MacroName" THEN st
          ELSE IF Has(ts, st.i + 1)
          THEN LET eq == At(ts, st.i + 1)
               IN IF eq.value = "(" THEN DefineFunc(ts, name, st)
                  ELSE DefineValue(ts, name, eq, st)
          ELSE st
  ELSE st

RECURSIVE get_macros_from(_, _)
RECURSIVE Iter(_, _)
RECURSIVE ValueLoop(_, _, _, _)
RECURSIVE FuncLoop(_, _, _, _)

\* A faulty re-scan: the substituted tokens are appended as they are.
RescanBadNoRescan(result_tokens, st) ==
  [st EXCEPT !.new_tokens = @ \o eval_pastes(result_tokens)]

\* The call get_macros(&result_tokens, value_macros, func_macros) made from
\* a loop of the caller st, with eval_pastes applied to what it returns and
\* the outcome appended to the caller's new_tokens.
Rescan(result_tokens, st) ==
  The({ [st EXCEPT !.new_tokens = @ \o eval_pastes(sub.new_tokens),
                   !.value_macros = sub.value_macros,
                   !.func_macros = sub.func_macros,
                   !.panic = sub.panic]
        : sub \in {get_macros_from(result_tokens,
                                   [i |-> 0, new_tokens |-> <<>>,
                                    value_macros |-> st.value_macros,
                                    func_macros |-> st.func_macros,
                                    panic |-> FALSE])} })

\* for value_macro in value_macros.clone(): snapshot is the clone, k the
\* position in it; the match pops the cursor token and appends the re-scan.
ValueLoop(ts, st, snapshot, k) ==
  IF k > Len(snapshot) THEN st
  ELSE The({ IF r.panic THEN [st EXCEPT !.panic = TRUE]
             ELSE IF r.some
             THEN Rescan(r.toks, [st EXCEPT !.new_tokens = Pop(@)])
             ELSE ValueLoop(ts, st, snapshot, k + 1)
             : r \in {apply_value_macro_once(Skip(ts, st.i - 1), snapshot[k])} })

\* for func_macro in func_macros.clone(): the invocation is looked for at
\* tokens.skip(i), the token after the cursor token.
FuncLoop(ts, st, snapshot, k) ==
  IF k > Len(snapshot) THEN st
  ELSE The({ IF r.panic THEN [st EXCEPT !.panic = TRUE]
             ELSE IF r.some
             THEN The({ [st1 EXCEPT !.i = @ + r.new_i] : st1 \in {Rescan(r.toks, st)} })
             ELSE FuncLoop(ts, st, snapshot, k + 1)
             : r \in {apply_func_macro_once(Skip(ts, st.i), snapshot[k])} })

\* A faulty step head: the cursor token is not pushed.
PushTokenBadNoPush(st, token) == [st EXCEPT !.i = @ + 1]

\* i += 1; token = tokens[i - 1]; new_tokens.push(token.clone())
PushToken(st, token) == [st EXCEPT !.i = @ + 1, !.new_tokens = Append(@, token)]

\* The phases after the two loops: #ifdef/#ifndef, #endif, #define.
DirectivePhase(ts, token, st) ==
  IF token.kind \in {"Ifdef", "Ifndef"}
  THEN IfdefPhase(ts, token, st)
  ELSE IF token.kind = "Endif"
  THEN [st EXCEPT !.new_tokens = Pop(@)]
  ELSE IF token.kind = "DefineDirective"
  THEN DefinePhase(ts, st)
  ELSE st

Iter(ts, st) ==
  LET token == At(ts, st.i)
  IN The({ IF u.cont THEN u.st
           ELSE The({ IF st2.panic THEN st2
                      ELSE The({ IF st3.panic THEN st3
                                 ELSE DirectivePhase(ts, token, st3)
                                 : st3 \in {FuncLoop(ts, st2, st2.func_macros, 1)} })
                      : st2 \in {ValueLoop(ts, u.st, u.st.value_macros, 1)} })
           : u \in {UndefPhase(ts, token, PushToken(st, token))} })

get_macros_from(ts, st0) ==
  The({ IF st.panic \/ st.i >= Len(ts) THEN st
        ELSE get_macros_from(ts, Iter(ts, st))
        : st \in {st0} })

get_macros(ts, value_macros0, func_macros0) ==
  get_macros_from(ts, [i |-> 0, new_tokens |-> <<>>, value_macros |-> value_macros0,
                       func_macros |-> func_macros0, panic |-> FALSE])

(***************************************************************************)
(* The lexemes used by the inputs, with the kind lex_single_token gives    *)
(* each.                                                                   *)
(***************************************************************************)
Name(v) == Token("Name", v)
MacroName(v) == Token("MacroName", v)
Number(v) == Token("Number", v)
tDefine == Token("DefineDirective", "#define")
tIfdef == Token("Ifdef", "#ifdef")
tIfndef == Token("Ifndef", "#ifndef")
tEndif == Token("Endif", "#endif")
tUndef == Token("Undef", "#undef")
tEnd == Token("EndDefine", "#end")
tNewline == Token("Newline", "\n")
tStringifyX == Token("Stringify", "#x#")
tVararg == Token("Vararg", "...")
tTagged == Token("TaggedVararg", "#...")
tPaste == Token("Paste", "##")
tEq == Token("Special", "=")
tStar == Token("Special", "*")
tLParen == Token("Brace", "(")
tRParen == Token("Brace", ")")
tLBracket == Token("Brace", "[")
tRBracket == Token("Brace", "]")
tComma == Token("Delimiter", ",")
tStrX == Token("String", "\"x\"")

\* #define name = body #end
DefValue(name, body) == <<tDefine, MacroName(name), tEq>> \o body \o <<tEnd>>
\* #define name(params) = body #end
DefFunc(name, params, body) ==
  <<tDefine, MacroName(name), tLParen>> \o params \o <<tRParen, tEq>> \o body \o <<tEnd>>
\* name(args)
Call(name, args) == <<MacroName(name), tLParen>> \o args \o <<tRParen>>

PlainChunks ==
  { <<Name("x")>>, <<Name("__VA_ARGS__")>>, <<Number("1")>>, <<tNewline>>,
    <<tEq>>, <<tLParen>>, <<tComma>>, <<tVararg>> }

RawChunks ==
  { <<tDefine>>, <<MacroName("V!")>>, <<tEq>>, <<Number("1")>>, <<tEnd>>, <<tNewline>>,
    <<tUndef>>, <<tIfdef>>, <<tEndif>> }

ValPrelude ==
  DefValue("V!", <<Number("3")>>)
  \o DefFunc("F!", <<Name("a")>>, <<tLBracket, Name("a"), tRBracket>>)
  \o DefValue("W!", <<Number("4")>>)
  \o DefValue("F!", <<Number("7")>>)
  \o DefFunc("G!", <<Name("a")>>, <<Name("a")>>)
  \o <<tNewline>>

ValChunks ==
  { <<MacroName("V!")>>, <<MacroName("F!")>>, Call("F!", <<Number("1")>>),
    <<tEq>>, <<Name("x")>>, <<tTagged>>,
    <<tUndef, MacroName("V!")>>, <<tUndef, MacroName("F!")>>,
    DefValue("V!", <<Number("5")>>) }

CondChunks ==
  { <<tIfdef, MacroName("V!")>>, <<tIfndef, MacroName("V!")>>,
    <<tIfdef, MacroName("G!")>>, <<tEndif>>, <<Name("x")>>, <<MacroName("V!")>>,
    Call("G!", <<Number("2")>>), <<tUndef, MacroName("V!")>> }

AbPrelude1 ==
  DefValue("A!", <<MacroName("B!")>>) \o <<tNewline>>
  \o DefValue("B!", <<Number("42")>>) \o <<tNewline>>

AbPrelude2 ==
  DefValue("B!", <<Number("42")>>) \o <<tNewline>>
  \o DefValue("A!", <<MacroName("B!")>>) \o <<tNewline>>

AbPrelude3 ==
  DefValue("A!", <<MacroName("B!")>>)
  \o DefValue("B!", <<Name("x"), tComma, Name("__VA_ARGS__"), tEq, Number("1")>>)
  \o <<tNewline>>

AbChunks ==
  { <<MacroName("A!")>>, <<MacroName("B!")>>, <<tEq>>, <<Name("x")>>, <<tNewline>>,
    <<tUndef, MacroName("B!")>>, <<tUndef, MacroName("A!")>> }

LogBody == <<Name("print"), tLParen, Name("fmt"), tComma, Name("__VA_ARGS__"), tRParen>>
TagBody == <<Name("g"), tLParen, tTagged, tRParen>>

VarPrelude ==
  DefFunc("LOG!", <<Name("fmt"), tComma, tVararg>>, LogBody)
  \o DefFunc("T!", <<Name("a"), tComma, tVararg>>, TagBody)
  \o DefFunc("U!", <<tVararg>>, TagBody)
  \o <<tNewline>>

Args1 == <<tStrX>>
Args2 == <<tStrX, tComma, Number("1")>>
Args3 == <<tStrX, tComma, Number("1"), tComma, Number("2")>>

VarChunks ==
  { Call("LOG!", Args1), Call("LOG!", Args2), Call("LOG!", Args3),
    Call("T!", Args1), Call("T!", Args3), Call("U!", Args3),
    <<tNewline>>, <<Name("x")>> }

FnPrelude ==
  DefFunc("SQ!", <<Name("x")>>,
          <<tLParen, Name("x"), tRParen, tStar, tLParen, Name("x"), tRParen>>)
  \o DefFunc("TWICE!", <<Name("x")>>, Call("SQ!", <<Name("x")>>))
  \o DefFunc("CAT!", <<Name("a"), tComma, Name("b")>>, <<Name("a"), tPaste, Name("b")>>)
  \o DefFunc("SHOW!", <<Name("x")>>, <<tStringifyX>>)
  \o <<tNewline>>

FnChunks ==
  { Call("SQ!", <<Number("1")>>), Call("TWICE!", <<Number("2")>>),
    Call("CAT!", <<Name("foo"), tComma, Name("bar")>>),
    Call("SHOW!", <<Number("1"), tStar, Number("2")>>), Call("SHOW!", <<>>),
    <<tNewline>>, <<Name("x")>>, <<Name("a"), tPaste, Name("b")>> }

Tails(chunks) ==
  UNION { { Flatten(f) : f \in [1..n -> chunks] } : n \in 0..MaxChunks }

\* The lexer folds adjacent line breaks into one Newline token.
Lexable(ts) ==
  \A k \in 1..(Len(ts) - 1) : ~(ts[k].kind = "Newline" /\ ts[k + 1].kind = "Newline")

InputsOf(prelude, chunks) ==
  { ts \in { prelude \o t : t \in Tails(chunks) } : Lexable(ts) }

Inputs ==
  InputsOf(<<>>, PlainChunks)
  \cup InputsOf(<<>>, RawChunks)
  \cup InputsOf(ValPrelude, ValChunks)
  \cup InputsOf(ValPrelude, CondChunks)
  \cup InputsOf(AbPrelude1, AbChunks)
  \cup InputsOf(AbPrelude2, AbChunks)
  \cup InputsOf(AbPrelude3, AbChunks)
  \cup InputsOf(VarPrelude, VarChunks)
  \cup InputsOf(FnPrelude, FnChunks)

(***************************************************************************)
(* main: get_macros(&tokens, &mut vec![], &mut vec![]) run one pass of its *)
(* while loop at a time, then render_tokens_as_string.                     *)
(***************************************************************************)
Cur == [i |-> i, new_tokens |-> new_tokens, value_macros |-> value_macros,
        func_macros |-> func_macros, panic |-> FALSE]

Init ==
  /\ tokens \in Inputs
  /\ i = 0
  /\ new_tokens = <<>>
  /\ value_macros = <<>>
  /\ func_macros = <<>>
  /\ pc = "expand"
  /\ result = ""
  /\ last = -1
  /\ p_tokens = <<>>
  /\ raw_i = 0
  /\ p_new = <<>>

CursorKind(kinds) ==
  /\ pc = "expand"
  /\ i < Len(tokens)
  /\ At(tokens, i).kind \in kinds

\* One pass of the while loop of the top-level get_macros call.
Advance ==
  /\ \E st \in {Iter(tokens, Cur)} :
        /\ i' = st.i
        /\ new_tokens' = st.new_tokens
        /\ value_macros' = st.value_macros
        /\ func_macros' = st.func_macros
        /\ pc' = IF st.panic THEN "panic" ELSE "expand"
  /\ last' = i
  /\ UNCHANGED <<tokens, result, pasteVars>>

StepUndef ==
  /\ CursorKind({"Undef"})
  /\ Advance

StepIfdef ==
  /\ CursorKind({"Ifdef", "Ifndef"})
  /\ Advance

StepEndif ==
  /\ CursorKind({"Endif"})
  /\ Advance

StepDefine ==
  /\ CursorKind({"DefineDirective"})
  /\ Advance

StepMacroName ==
  /\ CursorKind({"MacroName"})
  /\ Advance

StepOther ==
  /\ CursorKind({"Name", "Property", "Number", "String", "Special", "Brace",
                 "Delimiter", "EndDefine", "Newline", "Stringify", "Vararg",
                 "TaggedVararg", "Paste"})
  /\ Advance

Render ==
  /\ pc = "expand"
  /\ i >= Len(tokens)
  /\ IF CanRender(new_tokens)
     THEN pc' = "done" /\ result' = render_tokens_as_string(new_tokens)
     ELSE pc' = "panic" /\ result' = result
  /\ UNCHANGED <<tokens, i, new_tokens, value_macros, func_macros, last, pasteVars>>

Next ==
  \/ StepUndef
  \/ StepIfdef
  \/ StepEndif
  \/ StepDefine
  \/ StepMacroName
  \/ StepOther
  \/ Render

Spec == Init /\ [][Next]_vars

(***************************************************************************)
(* The same program run on well-formed inputs only: every #define has its  *)
(* name, then `=` or `(`, and its #end; every #undef has its name; every   *)
(* #ifdef or #ifndef has its name and its own #endif (no nesting); outside *)
(* the definitions there is no stray #end, #endif, #NAME#, #..., ## or     *)
(* `...` token.                                                            *)
(***************************************************************************)
\* Position k (from 1) lies in a definition: from a #define to its #end.
InDefinition(ts, k) ==
  \E d \in 1..k :
    /\ ts[d].kind = "DefineDirective"
    /\ \A e \in d..(k - 1) : ts[e].kind # "EndDefine"

ClosedSection(ts, c) ==
  \E e \in (c + 2)..Len(ts) :
    /\ ts[e].kind = "Endif"
    /\ \A k \in (c + 2)..(e - 1) : ts[k].kind \notin {"Ifdef", "Ifndef", "Endif"}

ClosesSection(ts, e) ==
  \E c \in 1..(e - 2) :
    /\ ts[c].kind \in {"Ifdef", "Ifndef"}
    /\ \A k \in (c + 2)..(e - 1) : ts[k].kind \notin {"Ifdef", "Ifndef", "Endif"}

WellFormed(ts) ==
  \A k \in 1..Len(ts) :
    /\ ts[k].kind = "DefineDirective"
         => /\ k + 1 < Len(ts) /\ ts[k + 1].kind = "MacroName"
            /\ ts[k + 2].value \in {"=", "("}
            /\ \E e \in (k + 3)..Len(ts) : ts[e].kind = "EndDefine"
    /\ ~InDefinition(ts, k)
         => /\ ts[k].kind \notin {"EndDefine", "Stringify", "TaggedVararg", "Paste", "Vararg"}
            /\ ts[k].kind = "Undef" => (k < Len(ts) /\ ts[k + 1].kind = "MacroName")
            /\ ts[k].kind \in {"Ifdef", "Ifndef"}
                 => (k < Len(ts) /\ ts[k + 1].kind = "MacroName" /\ ClosedSection(ts, k))
            /\ ts[k].kind = "Endif" => ClosesSection(ts, k)

InitPrograms ==
  /\ Init
  /\ WellFormed(tokens)

SpecPrograms == InitPrograms /\ [][Next]_vars

(***************************************************************************)
(* eval_pastes on its own: any sequence of Name, Paste and other tokens,   *)
(* one pass of the outer loop per step.                                    *)
(***************************************************************************)
PasteAlphabet == { Name("A"), Name("B"), Name("C"), tPaste, Number("1") }

PasteInputs == UNION { [1..n -> PasteAlphabet] : n \in 0..MaxPasteLen }

InitPaste ==
  /\ p_tokens \in PasteInputs
  /\ raw_i = 0
  /\ p_new = <<>>
  /\ tokens = <<>>
  /\ i = 0
  /\ new_tokens = <<>>
  /\ value_macros = <<>>
  /\ func_macros = <<>>
  /\ pc = "paste"
  /\ result = ""
  /\ last = -1

PasteAdvance ==
  /\ \E s \in {PasteIter(p_tokens, [raw_i |-> raw_i, new_tokens |-> p_new])} :
        raw_i' = s.raw_i /\ p_new' = s.new_tokens
  /\ UNCHANGED <<p_tokens, mainVars>>

PasteName ==
  /\ pc = "paste"
  /\ raw_i < Len(p_tokens)
  /\ At(p_tokens, raw_i).kind = "Name"
  /\ PasteAdvance

PasteOther ==
  /\ pc = "paste"
  /\ raw_i < Len(p_tokens)
  /\ At(p_tokens, raw_i).kind # "Name"
  /\ PasteAdvance

PasteReturn ==
  /\ pc = "paste"
  /\ raw_i >= Len(p_tokens)
  /\ pc' = "pasted"
  /\ UNCHANGED <<tokens, i, new_tokens, value_macros, func_macros, result, last,
                 pasteVars>>

NextPaste == PasteName \/ PasteOther \/ PasteReturn

SpecPaste == InitPaste /\ [][NextPaste]_vars

(***************************************************************************)
(* Properties.                                                             *)
(***************************************************************************)
AtCursor == pc = "expand" /\ i < Len(tokens)
Cursor == At(tokens, i)
NextLexemeIs(v) == Has(tokens, i + 1) /\ At(tokens, i + 1).value = v

HasNamed(macros, n) == \E k \in 1..Len(macros) : macros[k].name = n
FirstNamed(macros, n) ==
  macros[CHOOSE k \in 1..Len(macros) :
           /\ macros[k].name = n
           /\ \A j \in 1..(k - 1) : macros[j].name # n]
Live(n) == HasNamed(value_macros, n) \/ HasNamed(func_macros, n)

\* new_tokens' is new_tokens followed by ts and then possibly by more.
EmitsFirst(ts) ==
  /\ Len(new_tokens') >= Len(new_tokens) + Len(ts)
  /\ SubSeq(new_tokens', 1, Len(new_tokens) + Len(ts)) = new_tokens \o ts

\* The tokens of macros whose name is not n, in their order: the k-th of
\* them is found by counting, not by filtering.
OthersBefore(macros, n, k) == Cardinality({ j \in 1..k : macros[j].name # n })
IsWithout(after, before, n) ==
  /\ Len(after) = OthersBefore(before, n, Len(before))
  /\ \A k \in 1..Len(before) :
       before[k].name # n => after[OthersBefore(before, n, k)] = before[k]

DirectiveTokenKinds ==
  {"DefineDirective", "Ifdef", "Ifndef", "Endif", "Undef", "EndDefine"}
HashTokenKinds == {"Stringify", "TaggedVararg", "Paste"}

\* C3: after `#undef NAME!` is processed the environment holds no value
\* macro and no function macro named NAME!, the definitions with other
\* names are kept in their order, and while no definition named NAME! is
\* live an occurrence of NAME! under the cursor is emitted unexpanded, its
\* argument list, if any, left in the stream.
C3_UndefRemoves ==
  [][ /\ ( AtCursor /\ Cursor.kind = "Undef" /\ Has(tokens, i + 1)
           /\ At(tokens, i + 1).kind = "MacroName" )
        => /\ ~HasNamed(value_macros', At(tokens, i + 1).value)
           /\ ~HasNamed(func_macros', At(tokens, i + 1).value)
           /\ IsWithout(value_macros', value_macros, At(tokens, i + 1).value)
           /\ IsWithout(func_macros', func_macros, At(tokens, i + 1).value)
      /\ ( AtCursor /\ Cursor.kind = "MacroName" /\ ~Live(Cursor.value) )
        => /\ EmitsFirst(<<Cursor>>)
           /\ ( Has(tokens, i + 1) /\ At(tokens, i + 1).kind # "MacroName" )
                => ( i' = i + 1 /\ new_tokens' = Append(new_tokens, Cursor) )
    ]_vars

C3_Witness ==
  /\ pc = "done"
  /\ tokens = ValPrelude \o <<tUndef, MacroName("F!"), Name("x")>>
                \o Call("F!", <<Number("1")>>)
  /\ new_tokens = <<tNewline, Name("x")>> \o Call("F!", <<Number("1")>>)
  /\ [k \in 1..Len(value_macros) |-> value_macros[k].name] = <<"V!", "W!">>
  /\ [k \in 1..Len(func_macros) |-> func_macros[k].name] = <<"G!">>

PlainBody(body) ==
  \A k \in 1..Len(body) :
    body[k].kind \notin DirectiveTokenKinds \cup HashTokenKinds \cup {"MacroName"}

IsAlias(n) ==
  /\ HasNamed(value_macros, n)
  /\ Len(FirstNamed(value_macros, n).value) = 1
  /\ FirstNamed(value_macros, n).value[1].kind = "MacroName"
  /\ FirstNamed(value_macros, n).value[1].value # n
  /\ HasNamed(value_macros, FirstNamed(value_macros, n).value[1].value)
  /\ PlainBody(FirstNamed(value_macros, FirstNamed(value_macros, n).value[1].value).value)

AliasTarget(n) ==
  FirstNamed(value_macros, FirstNamed(value_macros, n).value[1].value)

\* C6: when the first value macro named by the cursor token has the body
\* `B!` alone, B! names another value macro whose body holds only plain
\* tokens, and the site is not an assignment target, the use is replaced by
\* the body of B!; the MacroName token B! is not emitted.
C6_Rescan ==
  [][ ( AtCursor /\ Cursor.kind = "MacroName" /\ ~NextLexemeIs("=")
        /\ IsAlias(Cursor.value) )
        => /\ EmitsFirst(AliasTarget(Cursor.value).value)
           /\ \A k \in (Len(new_tokens) + 1)..
                       (Len(new_tokens) + Len(AliasTarget(Cursor.value).value)) :
                new_tokens'[k] # MacroName(AliasTarget(Cursor.value).name)
    ]_vars

C6_Witness ==
  /\ pc = "done"
  /\ tokens = AbPrelude2 \o <<Name("x"), MacroName("A!")>>
  /\ new_tokens = <<tNewline, tNewline, Name("x"), Number("42")>>
  /\ last = Len(tokens) - 1

NoMacroSubset(ts) ==
  \A k \in 1..Len(ts) :
    /\ ts[k].kind \notin DirectiveTokenKinds \cup HashTokenKinds \cup {"MacroName"}
    /\ SubSeq(ts[k].value, 1, 1) # "#"

\* C8: on an input with no directive token, no other #-prefixed token and
\* no MacroName token, started with the empty environment, what has been
\* emitted is always the input read so far, the environment stays empty,
\* and the whole output is the input.
C8_Identity ==
  NoMacroSubset(tokens)
    => /\ i <= Len(tokens)
       /\ new_tokens = SubSeq(tokens, 1, i)
       /\ value_macros = <<>> /\ func_macros = <<>>
       /\ (pc = "done" => new_tokens = tokens)

C8_Witness ==
  /\ pc = "done"
  /\ tokens = <<tLParen, tComma, Name("__VA_ARGS__")>>
  /\ new_tokens = tokens
  /\ result = "( , __VA_ARGS__"

Linked(ts, k) ==
  /\ k >= 1 /\ k + 2 <= Len(ts)
  /\ ts[k].kind = "Name" /\ ts[k + 1].kind = "Paste" /\ ts[k + 2].kind = "Name"

RECURSIVE RunLexeme(_, _)
RunLexeme(ts, k) ==
  IF Linked(ts, k) THEN ts[k].value \o RunLexeme(ts, k + 2) ELSE ts[k].value

PasteExpected(ts) ==
  Flatten([k \in 1..Len(ts) |->
             IF Linked(ts, k - 2) \/ Linked(ts, k - 1) THEN <<>>
             ELSE IF ts[k].kind = "Name" THEN <<Name(RunLexeme(ts, k))>>
             ELSE <<ts[k]>>])

\* C9: eval_pastes replaces every maximal run Name ## Name (## Name)* by
\* one Name whose lexeme is the components' lexemes concatenated in order,
\* and keeps every other token, a ## beside a non-Name or at an end
\* included, in order.  Positions are those of the argument (from 1).
C9_PastePass ==
  pc = "pasted"
    => /\ p_new = PasteExpected(p_tokens)
       /\ p_tokens = <<Name("A"), tPaste, Name("B"), tPaste, Name("C")>>
            => p_new = <<Name("ABC")>>

C9_Witness ==
  /\ pc = "pasted"
  /\ p_tokens = <<tPaste, Name("A"), tPaste, Name("B"), tPaste>>
  /\ p_new = <<tPaste, Name("AB"), tPaste>>

LogCallArgs == {Args1, Args2, Args3}

\* C1: with LOG!(fmt, ...) defined as print(fmt, __VA_ARGS__), the call
\* LOG!(a) yields print(a) and the call LOG!(a1, ..., an), n >= 2, yields
\* print(a1, ..., an).
C1_VariadicCall ==
  \A args \in LogCallArgs :
    ( pc = "done" /\ tokens = VarPrelude \o Call("LOG!", args) )
      => new_tokens = <<tNewline, Name("print"), tLParen>> \o args \o <<tRParen>>

\* C2: where the cursor token is the MacroName of a live value macro and
\* the next token's lexeme is `=`, the token emitted at that site is the
\* MacroName token itself, not the macro's body.
C2_AssignmentSuppressed ==
  [][ ( AtCursor /\ Cursor.kind = "MacroName" /\ HasNamed(value_macros, Cursor.value)
        /\ NextLexemeIs("=") )
        => EmitsFirst(<<Cursor>>)
    ]_vars

EmittedKindsExcluded ==
  DirectiveTokenKinds \cup HashTokenKinds \cup {"Vararg"}

\* C4: no token emitted by the top-level expansion is a directive token, a
\* Stringify, TaggedVararg, Paste or Vararg token, or a MacroName token
\* whose name has a live definition when it is emitted.
C4_EmittedStreamClean ==
  [][ \A k \in (Len(new_tokens) + 1)..Len(new_tokens') :
        /\ new_tokens'[k].kind \notin EmittedKindsExcluded
        /\ new_tokens'[k].kind = "MacroName"
             => ~( HasNamed(value_macros', new_tokens'[k].value)
                   \/ HasNamed(func_macros', new_tokens'[k].value) )
    ]_vars

IsConditional(k) == Has(tokens, k) /\ At(tokens, k).kind \in {"Ifdef", "Ifndef"}
IsEndif(k) == Has(tokens, k) /\ At(tokens, k).kind = "Endif"

\* The section opened at index c is closed at index e.
Section(c, e) ==
  /\ IsConditional(c)
  /\ Has(tokens, c + 1) /\ At(tokens, c + 1).kind = "MacroName"
  /\ e > c + 1 /\ IsEndif(e)
  /\ \A k \in (c + 2)..(e - 1) : ~IsConditional(k) /\ ~IsEndif(k)

SectionTaken(c) ==
  IF At(tokens, c).kind = "Ifdef"
  THEN Live(At(tokens, c + 1).value)
  ELSE ~Live(At(tokens, c + 1).value)

\* C5: at `#ifdef NAME!` or `#ifndef NAME!` that opens a section closed by
\* a later `#endif`, with no other conditional directive in between, the
\* step emits nothing, leaves the environment alone and moves the cursor to
\* the first token of the section when the condition holds, and to the
\* first token after the `#endif` when it does not; the `#endif` that
\* closes a section is not emitted.
C5_Conditional ==
  [][ /\ \A e \in 0..Len(tokens) :
           ( AtCursor /\ Section(i, e) )
             => /\ new_tokens' = new_tokens
                /\ value_macros' = value_macros /\ func_macros' = func_macros
                /\ i' = IF SectionTaken(i) THEN i + 2 ELSE e + 1
      /\ ( AtCursor /\ Cursor.kind = "Endif" /\ \E c \in 0..i : Section(c, i) )
           => \A k \in (Len(new_tokens) + 1)..Len(new_tokens') :
                new_tokens'[k].kind # "Endif"
    ]_vars

Tail3 == <<Number("1"), tComma, Number("2")>>

\* C7: with T!(a, ...) defined as g(#...), the call T!(a1, a2, a3) yields
\* g(a2, a3), the variadic tail; with U!(...) defined as g(#...), the call
\* U!(a1, a2, a3) yields g(a1, a2, a3).
C7_TaggedVararg ==
  /\ ( pc = "done" /\ tokens = VarPrelude \o Call("T!", Args3) )
       => new_tokens = <<tNewline, Name("g"), tLParen>> \o Tail3 \o <<tRParen>>
  /\ ( pc = "done" /\ tokens = VarPrelude \o Call("U!", Args3) )
       => new_tokens = <<tNewline, Name("g"), tLParen>> \o Args3 \o <<tRParen>>

Closed(k) ==
  ArgScan(Skip(tokens, k + 2), [nesting_level |-> 0, args |-> <<<<>>>>, i |-> 0]).i
    <= Len(tokens) - (k + 2)
  /\ \E e \in (k + 2)..(Len(tokens) - 1) :
       /\ IsCloser(At(tokens, e).value)
       /\ e = k + 1 + ArgScan(Skip(tokens, k + 2),
                              [nesting_level |-> 0, args |-> <<<<>>>>, i |-> 0]).i

InvocationAtCursor ==
  /\ AtCursor /\ Cursor.kind = "MacroName"
  /\ HasNamed(func_macros, Cursor.value) /\ ~HasNamed(value_macros, Cursor.value)
  /\ Has(tokens, i + 1) /\ At(tokens, i + 1).value \in {"(", "[", "{"}
  /\ Closed(i)

\* C10: where the cursor token is the MacroName of a live function macro
\* (and of no value macro), followed by an opener and an argument list
\* closed by its bracket, the step consumes the whole invocation and emits
\* the re-scanned substituted body in its place, whatever token came before.
C10_PositionIndependent ==
  [][ InvocationAtCursor
        => \E r \in {apply_func_macro_once(Skip(tokens, i),
                                           FirstNamed(func_macros, Cursor.value))} :
             /\ i' = i + r.new_i
             /\ new_tokens' = Rescan(r.toks, Cur).new_tokens
    ]_vars

====
